---- MODULE Spec2Model ----
(***************************************************************************)
(* Model of the tslint rule "no-implicit-dependencies"                     *)
(* (src/rules/noImplicitDependenciesRule.ts).                              *)
(*                                                                         *)
(* Strings are sequences of one-character strings, so that splitting at    *)
(* "/" and looking at the first character are computed as the code does.   *)
(* A directory is the sequence of its path segments; the root is << >>.    *)
(***************************************************************************)
EXTENDS Naturals, Sequences, FiniteSets

VARIABLES
    pkgDirs,          \* fs: the directories that hold a "package.json"
    pc,               \* "idle" | "walk" | "find" | "read"
    options,          \* ctx.options of the file being analysed
    fileName,         \* ctx.sourceFile.fileName, as path segments
    refs,             \* the import names findImports has yielded so far
    packageName,      \* walk: const packageName of the current iteration
    dependencies,     \* walk: let dependencies: Set<string> | undefined
    failures,         \* ctx.failures, in the order they were added
    current,          \* findPackageJson: current
    packageJsonPath,  \* getDependencies: const packageJsonPath
    content,          \* the text readFileSync was asked to read, if any
    visited,          \* history: the directories findPackageJson has tested
    resolverCalls     \* history: the refs at which getDependencies was called

vars == <<pkgDirs, pc, options, fileName, refs, packageName, dependencies,
          failures, current, packageJsonPath, content, visited, resolverCalls>>

----------------------------------------------------------------------------
(* Bounds *)

\* the deepest directory a source file may live in, in Spec
MaxDepth == 1

\* the deepest directory a source file may live in, in SearchSpec
MaxSearchDepth == 3

\* the number of import names findImports yields for one file
MaxRefs == 2

----------------------------------------------------------------------------
(* Strings *)

Range(s) == {s[i] : i \in 1..Len(s)}

IsPrefix(p, t) == Len(p) <= Len(t) /\ SubSeq(t, 1, Len(p)) = p

\* what `${x}` prints for x === undefined
UndefinedText == <<"u", "n", "d", "e", "f", "i", "n", "e", "d">>

HasOwnPropertyText ==
    <<"h", "a", "s", "O", "w", "n", "P", "r", "o", "p", "e", "r", "t", "y">>

\* the position of the first "/" in s, or 0
RECURSIVE FirstSlashFrom(_, _)
FirstSlashFrom(s, i) ==
    IF i > Len(s) THEN 0
    ELSE IF s[i] = "/" THEN i
    ELSE FirstSlashFrom(s, i + 1)

\* name.split(/\//g): always at least one part, empty parts kept
RECURSIVE Split(_)
Split(s) ==
    LET k == FirstSlashFrom(s, 1)
    IN  IF k = 0 THEN <<s>>
        ELSE <<SubSeq(s, 1, k - 1)>> \o Split(SubSeq(s, k + 1, Len(s)))

----------------------------------------------------------------------------
(* The inputs: import names, package names, options, manifests *)

\* import * as builtins from "builtin-modules": three of its entries
Builtins == {<<"f", "s">>, <<"o", "s">>, <<"v", "m">>}

\* the module names a source file may import
ImportTexts ==
    { <<".", "/", "s">>,                  \* "./s"     relative
      <<"f", "s">>,                       \* "fs"      built-in
      <<"s", "/", "f">>,                  \* "s/f"     package "s"
      <<"f">>,                            \* "f"       package "f"
      <<"@", "s", "/", "f", "/", "s">>,   \* "@s/f/s"  package "@s/f"
      <<"@", "s">> }                      \* "@s"      scoped, no "/"

\* the values of the "ignore" option
IgnoreLists == { << >>, << <<"f">>, <<"@", "s", "/", "f", "/", "s">> >> }

\* parseOptions: dev and optional are booleans, ignore is a list of strings
OptionValues == [dev : BOOLEAN, optional : BOOLEAN, ignore : IgnoreLists]

\* one section of a package.json: absent, or an object with these keys
Absent == [present |-> FALSE, keys |-> {}]
Section(ks) == [present |-> TRUE, keys |-> ks]

\* the JSON value a package.json text denotes
Json(shape, deps, dev, peer, opt) ==
    [shape |-> shape, dependencies |-> deps, devDependencies |-> dev,
     peerDependencies |-> peer, optionalDependencies |-> opt]

File(readable, bom, json) == [readable |-> readable, bom |-> bom, json |-> json]

\* the package.json files the file system may hold
ManifestFiles ==
    { \* a directory named package.json: readFileSync throws
      File(FALSE, FALSE, Json("malformed", Absent, Absent, Absent, Absent)),
      \* not JSON
      File(TRUE, FALSE, Json("malformed", Absent, Absent, Absent, Absent)),
      \* the text "null"
      File(TRUE, FALSE, Json("null", Absent, Absent, Absent, Absent)),
      \* with a byte-order mark; one package per section
      File(TRUE, TRUE, Json("object", Section({<<"s">>}), Section({<<"f">>}),
                            Section({<<"@", "s", "/", "f">>}),
                            Section({<<"@", "s", "/">> \o UndefinedText}))),
      \* a later section with a key named hasOwnProperty
      File(TRUE, FALSE, Json("object", Section({<<"s">>}), Absent,
                             Section({HasOwnPropertyText, <<"f">>}), Absent)) }

\* the directory of depth k on the chain of ancestors: << >>, <<1>>, <<1, 2>>
Dir(k) == [i \in 1..k |-> i]

\* the directories down to depth n
DirsTo(n) == {Dir(k) : k \in 0..n}

\* the source file "index.ts" in directory d
FileIn(d) == Append(d, "index.ts")

----------------------------------------------------------------------------
(* The pure functions of the rule *)

\* ts.isExternalModuleNameRelative: /^\.\.?($|[\\/])/
EndsOrSeparator(t, i) == i > Len(t) \/ t[i] \in {"/", "\\"}

\* variant: only a leading ".." counts as relative
DotDotOnlyRelative(t) ==
    /\ Len(t) >= 2
    /\ t[1] = "."
    /\ t[2] = "."
    /\ EndsOrSeparator(t, 3)

isExternalModuleNameRelative(t) ==
    /\ Len(t) >= 1
    /\ t[1] = "."
    /\ \/ EndsOrSeparator(t, 2)
       \/ Len(t) >= 2 /\ t[2] = "." /\ EndsOrSeparator(t, 3)

\* parts[i] inside a template literal: "undefined" when there is no such part
PartText(parts, i) == IF i <= Len(parts) THEN parts[i] ELSE UndefinedText

getPackageName(name) ==
    LET parts == Split(name)
    IN  IF Len(name) = 0 \/ name[1] # "@"
        THEN parts[1]
        ELSE PartText(parts, 1) \o <<"/">> \o PartText(parts, 2)

\* variant: the built-in list is not consulted
NeverBuiltin(module) == FALSE

\* builtins.indexOf(packageName) !== -1
IsBuiltin(module) == module \in Builtins

\* Rule.FAILURE_STRING_FACTORY
FAILURE_STRING_FACTORY(module) ==
    <<"Module '", module, "' is not listed as dependency in package.json">>

\* the value of `dependencies` before the first call of getDependencies
Undefined == [isSet |-> FALSE, has |-> {}]
SetOf(names) == [isSet |-> TRUE, has |-> names]

\* variant: no guard, getDependencies is called for every classified reference
AlwaysRecompute(deps) == TRUE

\* shouldWarnAboutDependency: dependencies === undefined
NeedsDependencies(deps) == ~deps.isSet

\* variant: options.ignore is not consulted
ShouldWarnIgnoringIgnore(deps, opts, module) == ~(module \in deps.has)

\* variant: && in place of ||
ShouldWarnBothNeeded(deps, opts, module) ==
    ~(module \in deps.has /\ module \in Range(opts.ignore))

\* shouldWarnAboutDependency, once dependencies is set
ShouldWarn(deps, opts, module) ==
    LET hasDependency == module \in deps.has
        shouldIgnore == module \in Range(opts.ignore)
    IN  ~(hasDependency \/ shouldIgnore)

\* addDependencies: dependencies.hasOwnProperty is the section's own property
\* when the section has a key of that name; a JSON value is not callable, so
\* the first iteration throws a TypeError before anything is added
addDependencies(result, section) ==
    IF HasOwnPropertyText \in section.keys
    THEN [threw |-> TRUE, result |-> result]
    ELSE [threw |-> FALSE, result |-> result \cup section.keys]

\* one `if (cond && content.x !== undefined) addDependencies(result, content.x)`
\* of the try block, skipped when an earlier statement has thrown
AddIf(acc, cond, section) ==
    IF acc.threw \/ ~cond \/ ~section.present
    THEN acc
    ELSE addDependencies(acc.result, section)

\* .replace(/^\uFEFF/, ""): a leading byte-order mark is removed
StripBOM(file) == [file EXCEPT !.bom = FALSE]

\* JSON.parse throws on a byte-order mark and on text that is not JSON
ParseThrows(text) == text.bom \/ text.json.shape = "malformed"

\* the try/catch of getDependencies: the set `result` holds after it
TryBlock(file, opts) ==
    IF ~file.readable THEN {}
    ELSE LET text == StripBOM(file)
             c == text.json
         IN  IF ParseThrows(text) THEN {}
             ELSE IF c.shape = "null" THEN {}
             ELSE LET r0 == [threw |-> FALSE, result |-> {}]
                      r1 == AddIf(r0, TRUE, c.dependencies)
                      r2 == AddIf(r1, ~opts.dev, c.peerDependencies)
                      r3 == AddIf(r2, opts.dev, c.devDependencies)
                      r4 == AddIf(r3, opts.optional, c.optionalDependencies)
                  IN  r4.result

\* path.dirname on a directory: the root is its own parent
dirname(p) == IF Len(p) = 0 THEN p ELSE SubSeq(p, 1, Len(p) - 1)

\* fs.existsSync(path.join(dir, "package.json"))
ExistsPackageJson(dir) == dir \in pkgDirs

\* variant: the loop ends on reaching the root, before testing it
StopBelowRoot(prev, cur) == Len(cur) > 0

\* findPackageJson: while (prev !== current)
LoopContinues(prev, cur) == prev # cur

NotFound == [found |-> FALSE, dir |-> << >>]
FoundIn(d) == [found |-> TRUE, dir |-> d]

NoName == [defined |-> FALSE, text |-> << >>]
Name(t) == [defined |-> TRUE, text |-> t]

----------------------------------------------------------------------------
(* The state machine *)

\* parseOptions(undefined)
DefaultOptions == [dev |-> FALSE, optional |-> FALSE, ignore |-> << >>]

Failure(node, module) ==
    [node |-> node, message |-> FAILURE_STRING_FACTORY(module)]

\* ctx.addFailureAtNode(name, ...) when shouldWarnAboutDependency returned true
AddFailureIf(warn, fs, node, module) ==
    IF warn THEN Append(fs, Failure(node, module)) ELSE fs

\* no file is being analysed; the file system holds package.json files in
\* some of the directories dirs
InitOver(dirs) ==
    /\ pkgDirs \in SUBSET dirs
    /\ pc = "idle"
    /\ options = DefaultOptions
    /\ fileName = FileIn(Dir(0))
    /\ refs = << >>
    /\ packageName = NoName
    /\ dependencies = Undefined
    /\ failures = << >>
    /\ current = << >>
    /\ packageJsonPath = NotFound
    /\ content = << >>
    /\ visited = << >>
    /\ resolverCalls = << >>

\* Rule.apply: parseOptions, then walk is entered with a fresh context and
\* `let dependencies` undefined
Apply(d, opts) ==
    /\ pc = "idle"
    /\ pc' = "walk"
    /\ options' = opts
    /\ fileName' = FileIn(d)
    /\ refs' = << >>
    /\ packageName' = NoName
    /\ dependencies' = Undefined
    /\ failures' = << >>
    /\ current' = << >>
    /\ packageJsonPath' = NotFound
    /\ content' = << >>
    /\ visited' = << >>
    /\ resolverCalls' = << >>
    /\ UNCHANGED pkgDirs

\* one iteration of `for (const name of findImports(...))`, up to the call of
\* getDependencies when shouldWarnAboutDependency has to make it
WalkImport(name) ==
    /\ pc = "walk"
    /\ Len(refs) < MaxRefs
    /\ refs' = Append(refs, name)
    /\ UNCHANGED <<pkgDirs, options, fileName, dependencies>>
    /\ IF isExternalModuleNameRelative(name)
       THEN /\ packageName' = NoName
            /\ UNCHANGED <<pc, failures, current, packageJsonPath, content,
                           visited, resolverCalls>>
       ELSE LET module == getPackageName(name)
            IN  /\ packageName' = Name(module)
                /\ IF IsBuiltin(module)
                   THEN UNCHANGED <<pc, failures, current, packageJsonPath,
                                    content, visited, resolverCalls>>
                   ELSE IF NeedsDependencies(dependencies)
                   THEN \* getDependencies: findPackageJson(path.resolve(
                        \* path.dirname(fileName)))
                        /\ pc' = "find"
                        /\ current' = dirname(fileName)
                        /\ packageJsonPath' = NotFound
                        /\ content' = << >>
                        /\ visited' = << >>
                        /\ resolverCalls' = Append(resolverCalls, Len(refs'))
                        /\ UNCHANGED failures
                   ELSE /\ failures' =
                              AddFailureIf(ShouldWarn(dependencies, options, module),
                                           failures, Len(refs'), module)
                        /\ UNCHANGED <<pc, current, packageJsonPath, content,
                                       visited, resolverCalls>>

\* one iteration of the do-while loop of findPackageJson
FindStep ==
    /\ pc = "find"
    /\ visited' = Append(visited, current)
    /\ IF ExistsPackageJson(current)
       THEN /\ packageJsonPath' = FoundIn(current)
            /\ pc' = "read"
            /\ UNCHANGED current
       ELSE LET prev == current
                next == dirname(current)
            IN  /\ current' = next
                /\ packageJsonPath' = NotFound
                /\ pc' = IF LoopContinues(prev, next) THEN "find" ELSE "read"
    /\ UNCHANGED <<pkgDirs, options, fileName, refs, packageName, dependencies,
                   failures, content, resolverCalls>>

\* the rest of getDependencies, of shouldWarnAboutDependency and of the
\* iteration that called it; the file at packageJsonPath holds any of
\* ManifestFiles
ReadManifest ==
    /\ pc = "read"
    /\ \E file \in ManifestFiles :
          LET deps == IF packageJsonPath.found
                      THEN SetOf(TryBlock(file, options))
                      ELSE SetOf({})
          IN  /\ content' = IF packageJsonPath.found THEN <<file>> ELSE << >>
              /\ dependencies' = deps
              /\ failures' =
                    AddFailureIf(ShouldWarn(deps, options, packageName.text),
                                 failures, Len(refs), packageName.text)
    /\ pc' = "walk"
    /\ UNCHANGED <<pkgDirs, options, fileName, refs, packageName, current,
                   packageJsonPath, visited, resolverCalls>>

\* findImports has no more names: walk returns
WalkDone ==
    /\ pc = "walk"
    /\ pc' = "idle"
    /\ UNCHANGED <<pkgDirs, options, fileName, refs, packageName, dependencies,
                   failures, current, packageJsonPath, content, visited,
                   resolverCalls>>

\* the steps of the analysis of files that live in dirs, whose options are
\* drawn from optionValues and whose import names are drawn from texts
NextOver(dirs, optionValues, texts) ==
    \/ \E d \in dirs, opts \in optionValues : Apply(d, opts)
    \/ \E name \in texts : WalkImport(name)
    \/ FindStep
    \/ ReadManifest
    \/ WalkDone

Init == InitOver(DirsTo(MaxDepth))

Next == NextOver(DirsTo(MaxDepth), OptionValues, ImportTexts)

Spec == Init /\ [][Next]_vars

\* the import names of the files SearchSpec analyses: a relative one, a
\* built-in and a package
SearchTexts == {<<".", "/", "s">>, <<"f", "s">>, <<"f">>}

SearchInit == InitOver(DirsTo(MaxSearchDepth))

SearchNext == NextOver(DirsTo(MaxSearchDepth), {DefaultOptions}, SearchTexts)

\* Files in a deeper tree, analysed under the default options. The loop of
\* findPackageJson is synchronous code: once entered, its next iteration is
\* taken.
SearchSpec == SearchInit /\ [][SearchNext]_vars /\ WF_vars(FindStep)

----------------------------------------------------------------------------
(* What the properties speak about *)

\* the text begins with a path-relative marker: ".", "..", "./...", "../..."
RelativeText(t) ==
    \/ t \in {<<".">>, <<".", ".">>}
    \/ \E sep \in {"/", "\\"} :
          IsPrefix(<<".", sep>>, t) \/ IsPrefix(<<".", ".", sep>>, t)

\* the references whose iteration of the loop of walk is complete
Processed == IF pc \in {"find", "read"} THEN Len(refs) - 1 ELSE Len(refs)

\* the set the file's references are classified against
AllowedSet == dependencies.has

\* reference i is one the rule has to report
Offending(i) ==
    LET module == getPackageName(refs[i])
    IN  /\ ~RelativeText(refs[i])
        /\ module \notin Builtins
        /\ module \notin AllowedSet
        /\ module \notin Range(options.ignore)

\* the Findings for the first n references: one per offending occurrence
RECURSIVE ExpectedFailures(_)
ExpectedFailures(n) ==
    IF n = 0 THEN << >>
    ELSE LET before == ExpectedFailures(n - 1)
         IN  IF Offending(n)
             THEN Append(before, Failure(n, getPackageName(refs[n])))
             ELSE before

\* reference i needs a decision against the AllowedSet
Qualifying(i) ==
    /\ ~RelativeText(refs[i])
    /\ getPackageName(refs[i]) \notin Builtins

QualifyingRefs == {i \in 1..Len(refs) : Qualifying(i)}

ReportedNodes == {failures[i].node : i \in 1..Len(failures)}

\* the directory the search starts in, and its ancestors that hold a manifest
Start == dirname(fileName)

AncestorsWithManifest ==
    {k \in 0..Len(Start) : SubSeq(Start, 1, k) \in pkgDirs}

Nearest ==
    SubSeq(Start, 1,
           CHOOSE k \in AncestorsWithManifest :
               \A j \in AncestorsWithManifest : j <= k)

\* the manifest has been read and `dependencies` assigned from it
ManifestUsed == content # << >> /\ dependencies.isSet /\ pc \in {"walk", "idle"}

\* the sections the options select, in the order the code looks at them
SelectedSections(json, opts) ==
    {json.dependencies,
     IF opts.dev THEN json.devDependencies ELSE json.peerDependencies,
     IF opts.optional THEN json.optionalDependencies ELSE Absent}

UnionOfSelected(json, opts) ==
    UNION {sec.keys : sec \in {x \in SelectedSections(json, opts) : x.present}}

\* reading, parsing or processing this file fails
ManifestFails(file, opts) ==
    \/ ~file.readable
    \/ file.json.shape \in {"malformed", "null"}
    \/ \E sec \in SelectedSections(file.json, opts) :
          sec.present /\ HasOwnPropertyText \in sec.keys

\* the package name the text denotes: the first two "/"-delimited segments
\* joined by "/" for a scoped text, the first segment otherwise
DerivedName(t) ==
    LET parts == Split(t)
    IN  IF Len(t) > 0 /\ t[1] = "@"
        THEN IF Len(parts) >= 2 THEN parts[1] \o <<"/">> \o parts[2] ELSE parts[1]
        ELSE parts[1]

----------------------------------------------------------------------------
(* The properties *)

\* C1: the Findings are exactly the references, in source order, that are not
\* relative and whose package name is not a built-in, not in the AllowedSet
\* and not ignored: one Finding per offending occurrence, no deduplication.
C1_FindingsAreTheOffendingReferences ==
    failures = ExpectedFailures(Processed)

\* C1 witness: the same offending package referenced twice gave two Findings.
C1_Witness ==
    /\ pc = "idle"
    /\ Len(refs) = 2
    /\ refs[1] = refs[2]
    /\ Len(failures) = 2
    /\ failures[1].node = 1
    /\ failures[2].node = 2

\* C2: a reference whose package name is a built-in module is never reported,
\* whatever the manifest, the AllowedSet and the ignore list are.
C2_BuiltinNeverReported ==
    \A n \in ReportedNodes : getPackageName(refs[n]) \notin Builtins

\* C2 witness: a built-in was classified with no manifest found, an empty
\* AllowedSet and an empty ignore list, and was not reported.
C2_Witness ==
    /\ pc = "idle"
    /\ dependencies.isSet
    /\ ~packageJsonPath.found
    /\ AllowedSet = {}
    /\ options.ignore = << >>
    /\ \E i \in 1..Len(refs) :
          getPackageName(refs[i]) \in Builtins /\ i \notin ReportedNodes

\* C3: a relative reference is never reported, and it is skipped before the
\* package name is derived and before anything is classified or resolved.
C3_RelativeNeverReported ==
    /\ \A n \in ReportedNodes : ~RelativeText(refs[n])
    /\ (refs # << >> /\ RelativeText(refs[Len(refs)])) =>
          (packageName = NoName /\ pc \notin {"find", "read"})
    /\ (\A i \in 1..Len(refs) : RelativeText(refs[i])) =>
          (resolverCalls = << >> /\ ~dependencies.isSet)

\* C3 witness: a relative reference followed a resolved one, with no manifest
\* and no ignore list, and only the other reference was reported.
C3_Witness ==
    /\ pc = "idle"
    /\ Len(refs) = 2
    /\ RelativeText(refs[2])
    /\ dependencies.isSet
    /\ AllowedSet = {}
    /\ options.ignore = << >>
    /\ ReportedNodes = {1}

\* C4: a reference whose package name is a member of options.ignore is never
\* reported; the test is membership of the derived package name, so a raw
\* text listed in options.ignore does not exempt its reference.
C4_IgnoredNeverReported ==
    /\ \A n \in ReportedNodes :
          getPackageName(refs[n]) \notin Range(options.ignore)
    /\ \A i \in 1..Processed :
          (/\ Qualifying(i)
           /\ refs[i] \in Range(options.ignore)
           /\ getPackageName(refs[i]) \notin Range(options.ignore)
           /\ getPackageName(refs[i]) \notin AllowedSet) => i \in ReportedNodes

\* C4 witness: with no manifest, an ignored package was not reported and a
\* reference whose raw text (not its package name) is listed was reported.
C4_Witness ==
    /\ pc = "idle"
    /\ Len(refs) = 2
    /\ ~packageJsonPath.found
    /\ getPackageName(refs[1]) \in Range(options.ignore)
    /\ refs[2] \in Range(options.ignore)
    /\ ReportedNodes = {2}

\* C5: when the manifest is read and parsed, the AllowedSet is the union of
\* the keys of dependencies, of devDependencies if dev else peerDependencies,
\* and of optionalDependencies if optional.
C5_AllowedSetIsUnionOfSelectedSections ==
    (ManifestUsed /\ content[1].readable /\ content[1].json.shape # "malformed")
        => AllowedSet = UnionOfSelected(content[1].json, options)

\* C6: a failure while reading, parsing or processing the manifest leaves the
\* AllowedSet empty, as when no manifest is found.
C6_FailureLeavesAllowedSetEmpty ==
    (ManifestUsed /\ ManifestFails(content[1], options)) => AllowedSet = {}

\* C7: per file the resolver runs at most once, at the first reference that is
\* neither relative nor built-in, and not at all without one; the cached set
\* is not there when the analysis of another file starts.
C7_ResolverRunsAtMostOncePerFile ==
    /\ Len(resolverCalls) <= 1
    /\ QualifyingRefs = {} => resolverCalls = << >>
    /\ QualifyingRefs # {} =>
          /\ resolverCalls # << >>
          /\ resolverCalls[1] \in QualifyingRefs
          /\ \A i \in QualifyingRefs : resolverCalls[1] <= i
    /\ resolverCalls = << >> => dependencies = Undefined
    /\ (resolverCalls # << >> /\ pc \in {"walk", "idle"}) => dependencies.isSet

\* C7 witness: two references needed the AllowedSet and the resolver ran once,
\* at the first of them.
C7_Witness ==
    /\ pc = "idle"
    /\ Cardinality(QualifyingRefs) >= 2
    /\ resolverCalls = <<1>>
    /\ content # << >>

\* the search tests the start directory, then each ancestor, each once
SearchInOrder ==
    /\ Len(visited) <= Len(Start) + 1
    /\ \A i \in 1..Len(visited) :
          visited[i] = SubSeq(Start, 1, Len(Start) - (i - 1))

\* what the search returns
SearchResult ==
    pc = "read" =>
        IF AncestorsWithManifest # {}
        THEN /\ packageJsonPath = FoundIn(Nearest)
             /\ visited[Len(visited)] = Nearest
        ELSE /\ packageJsonPath = NotFound
             /\ Len(visited) = Len(Start) + 1
             /\ visited[Len(visited)] = << >>

\* no manifest found gives the empty AllowedSet
NotFoundIsEmpty ==
    (pc \in {"walk", "idle"} /\ dependencies.isSet /\ ~packageJsonPath.found)
        => AllowedSet = {}

\* C8: the upward search terminates; it tests the start directory first, then
\* each ancestor in order, returns the nearest manifest, and otherwise stops
\* at the root (the directory that is its own parent) with "not found".
C8_SearchTerminatesAtNearestOrRoot ==
    /\ [](SearchInOrder /\ SearchResult /\ NotFoundIsEmpty)
    /\ (pc = "find") ~> (pc = "read")

\* C8 witness: a search from below the root found nothing and stopped after
\* testing the root once.
C8_Witness ==
    /\ pc = "read"
    /\ Len(Start) >= 2
    /\ ~packageJsonPath.found
    /\ visited[Len(visited)] = << >>
    /\ Len(visited) = Len(Start) + 1

\* C9: getPackageName returns the first two "/"-delimited segments joined by
\* "/" when the text starts with "@", and the first segment otherwise.
C9_PackageNameIsFirstSegments ==
    packageName.defined => packageName.text = DerivedName(refs[Len(refs)])

\* C10: the derived package name is a prefix of the reference text, so the
\* name in a Finding's message stands at the start of the import specifier.
C10_PackageNameIsPrefixOfText ==
    /\ packageName.defined => IsPrefix(packageName.text, refs[Len(refs)])
    /\ \A i \in 1..Len(failures) :
          IsPrefix(failures[i].message[2], refs[failures[i].node])

====
